---- MODULE Spec2Model ----
(***************************************************************************)
(* Student registration service (src/main2.py): the validator              *)
(* validate_student, the handlers add_student / edit_student /             *)
(* delete_student over the SQLite table `students`, and the post-delete    *)
(* rebuild resequence_students.                                            *)
(*                                                                         *)
(* JSON values are records [t, v]: t is the JSON type ("missing" for an    *)
(* absent key), v the characters of a string (or the digits of a number).  *)
(* A character is a one-character string; "U+0663" stands for the          *)
(* non-ASCII decimal digit ARABIC-INDIC DIGIT THREE, which Python's \d     *)
(* matches in a str pattern.                                               *)
(***************************************************************************)
EXTENDS Integers, Sequences, FiniteSets, TLC

VARIABLES
    tableExists,   \* the table `students` exists in students.db
    students,      \* its rows: records [id, first_name, last_name, number, birthdate, email]
    today,         \* datetime.today().date() as <<year, month, day>>
    request,       \* the request being answered: [op, id, data]
    response,      \* its answer: [status, body]
    before,        \* [exists, rows, locked]: the table when the request arrived
    reseq,         \* outcome of the resequencing pass of this request
    everFailed,    \* some resequencing pass has failed so far
    locked,        \* the connection of a failed pass is still open and holds the write lock
    candidate,     \* argument of a direct call of validate_student
    result         \* what that call produced

vars == <<tableExists, students, today, request, response, before, reseq,
          everFailed, locked, candidate, result>>

dbvars == <<tableExists, students, request, response, before, reseq, everFailed, locked>>

----------------------------------------------------------------------------
(* Bounds of the exploration *)

MaxRows == 3     \* rows the explored tables hold at most
MaxId == 4       \* largest id the explored tables use

----------------------------------------------------------------------------
(* JSON values and Python truthiness *)

Str(s) == [t |-> "str", v |-> s]
Num(s) == [t |-> "num", v |-> s]
Null == [t |-> "null", v |-> <<>>]
Missing == [t |-> "missing", v |-> <<>>]

Fields == {"first_name", "last_name", "phone", "birthdate", "email"}

IsStr(x) == x.t = "str"

\* data.get(key): None for an absent key
Get(data, key) == IF data[key].t = "missing" THEN Null ELSE data[key]

\* data.get(key, ""): the empty string for an absent key
GetOrEmpty(data, key) == IF data[key].t = "missing" THEN Str(<<>>) ELSE data[key]

\* bool(x) for the JSON values above
Truthy(x) ==
    CASE x.t = "str" -> Len(x.v) > 0
      [] x.t = "num" -> x.v # <<"0">>
      [] OTHER -> FALSE

\* `if not data`: request.json is an empty object
IsEmptyJSON(data) == \A k \in Fields : data[k].t = "missing"

Rep(c, n) == [i \in 1..n |-> c]

----------------------------------------------------------------------------
(* Character classes of the regular expressions *)

AsciiDigit == {"0", "1", "2", "3", "4", "5", "6", "7", "8", "9"}
Digit == AsciiDigit \cup {"U+0663"}                \* \d
Letter == {"A", "L", "a", "c", "e", "m", "n", "o", "x"}  \* [A-Za-z] of the sample alphabet
Whitespace == {" ", "\n"}                           \* \s
NameChar == Letter \cup Whitespace \cup {"-"}       \* [A-Za-z\s-]
PhoneLead == {"5", "6", "7", "8", "9"}              \* [5-9]

NameMin == 2
NameMax == 50
PhoneLen == 10
AgeMin == 5
AgeMax == 100

\* `$` without re.MULTILINE: at the end of the string, or just before a
\* newline that is the last character
AtDollar(s, n) ==
    \/ n = Len(s)
    \/ n = Len(s) - 1 /\ s[Len(s)] = "\n"

\* re.match(r"^[A-Za-z\s-]{2,50}$", s)
NameMatch(s) ==
    \E n \in NameMin..NameMax :
        /\ n <= Len(s)
        /\ \A i \in 1..n : s[i] \in NameChar
        /\ AtDollar(s, n)

\* re.match(r"^[5-9]\d{9}$", s)
PhoneMatch(s) ==
    /\ Len(s) >= PhoneLen
    /\ s[1] \in PhoneLead
    /\ \A i \in 2..PhoneLen : s[i] \in Digit
    /\ AtDollar(s, PhoneLen)

\* re.match(r"^[^@]+@[^@]+\.[^@]+$", s): i is the position of the "@",
\* j of the ".", n of the last character matched
EmailMatch(s) ==
    \E i \in 2..Len(s) :
        /\ s[i] = "@"
        /\ \E j \in (i + 2)..Len(s) :
               /\ s[j] = "."
               /\ \E n \in (j + 1)..Len(s) :
                      /\ AtDollar(s, n)
                      /\ \A k \in 1..n : (k # i) => s[k] # "@"

----------------------------------------------------------------------------
(* datetime.strptime(s, "%Y-%m-%d").date() *)

DigitVal(c) ==
    CASE c = "0" -> 0 [] c = "1" -> 1 [] c = "2" -> 2 [] c = "3" -> 3
      [] c = "4" -> 4 [] c = "5" -> 5 [] c = "6" -> 6 [] c = "7" -> 7
      [] c = "8" -> 8 [] c = "9" -> 9 [] c = "U+0663" -> 3

NonZero == AsciiDigit \ {"0"}                       \* [1-9]

IsLeap(y) == (y % 4 = 0) /\ ((y % 100 # 0) \/ (y % 400 = 0))

DaysInMonth(y, m) ==
    IF m = 2 THEN (IF IsLeap(y) THEN 29 ELSE 28)
    ELSE IF m \in {4, 6, 9, 11} THEN 30 ELSE 31

NoDate == <<0, 0, 0>>

\* characters the %m directive takes at position p, 0 when it does not
\* match there: (1[0-2]|0[1-9]|[1-9]) followed by the literal "-"
MonthWidth(s, p) ==
    IF /\ Len(s) >= p + 2
       /\ \/ s[p] = "1" /\ s[p + 1] \in {"0", "1", "2"}
          \/ s[p] = "0" /\ s[p + 1] \in NonZero
       /\ s[p + 2] = "-"
    THEN 2
    ELSE IF Len(s) >= p + 1 /\ s[p] \in NonZero /\ s[p + 1] = "-"
    THEN 1
    ELSE 0

\* characters the %d directive takes at position p, 0 when it does not
\* match there: (3[01]|[12]\d|0[1-9]|[1-9]| [1-9]), first alternative wins
DayWidth(s, p) ==
    IF Len(s) < p THEN 0
    ELSE IF Len(s) > p /\ s[p] = "3" /\ s[p + 1] \in {"0", "1"} THEN 2
    ELSE IF Len(s) > p /\ s[p] \in {"1", "2"} /\ s[p + 1] \in Digit THEN 2
    ELSE IF Len(s) > p /\ s[p] = "0" /\ s[p + 1] \in NonZero THEN 2
    ELSE IF s[p] \in NonZero THEN 1
    ELSE IF Len(s) > p /\ s[p] = " " /\ s[p + 1] \in NonZero THEN 2
    ELSE 0

\* int() of the characters a directive matched
FieldVal(s, p, w) ==
    IF w = 1 THEN DigitVal(s[p])
    ELSE IF s[p] = " " THEN DigitVal(s[p + 1])
    ELSE 10 * DigitVal(s[p]) + DigitVal(s[p + 1])

\* the date, or NoDate where strptime raises ValueError (format mismatch,
\* unconverted data, year 0, day out of range for the month)
ParseDate(s) ==
    IF ~ (/\ Len(s) >= 5
          /\ \A i \in 1..4 : s[i] \in Digit
          /\ s[5] = "-")
    THEN NoDate
    ELSE
      LET y == 1000 * DigitVal(s[1]) + 100 * DigitVal(s[2])
               + 10 * DigitVal(s[3]) + DigitVal(s[4])
          mw == MonthWidth(s, 6)
          dp == 6 + mw + 1
          dw == DayWidth(s, dp)
      IN  IF mw = 0 \/ dw = 0 \/ dp + dw - 1 # Len(s) THEN NoDate
          ELSE
            LET m == FieldVal(s, 6, mw)
                d == FieldVal(s, dp, dw)
            IN  IF y < 1 \/ d > DaysInMonth(y, m) THEN NoDate
                ELSE <<y, m, d>>

\* tuple comparison (a, b) < (c, d)
PairLess(a, b, c, d) == a < c \/ (a = c /\ b < d)

\* date comparison birth > today
DateAfter(x, y) == x[1] > y[1] \/ (x[1] = y[1] /\ PairLess(y[2], y[3], x[2], x[3]))

\* today.year - birth.year - ((today.month, today.day) < (birth.month, birth.day))
Age(birth, now) ==
    now[1] - birth[1] - (IF PairLess(now[2], now[3], birth[2], birth[3]) THEN 1 ELSE 0)

----------------------------------------------------------------------------
(* validate_student *)

MsgFirstName == "Invalid first name. It should be 2-50 characters long and contains only letters, spaces, or hyphens."
MsgLastName == "Invalid last name. It should be 2-50 characters long and contains only letters, spaces, or hyphens."
MsgPhone == "Invalid phone number. It should be 10 digits and start with 5,6,7,8 or 9."
\* the dash of the source text is a non-ASCII en dash, written "-" here
MsgAge == "Invalid birthdate (age must be 5-100)"
MsgDateFormat == "Invalid birthdate format (YYYY-MM-DD)"
MsgEmail == "Invalid email format"

\* `not data.get(k) or not re.match(pattern, data[k])`: "err" appends the
\* message, "raise" is the TypeError of re.match on a truthy non-string
NameCheck(data, key) ==
    LET x == Get(data, key)
    IN  IF ~ Truthy(x) THEN "err"
        ELSE IF ~ IsStr(x) THEN "raise"
        ELSE IF ~ NameMatch(x.v) THEN "err"
        ELSE "ok"

\* phone = data.get("phone", ""); `not phone or not re.match(..., phone)`
PhoneCheck(data) ==
    LET x == GetOrEmpty(data, "phone")
    IN  IF ~ Truthy(x) THEN "err"
        ELSE IF ~ IsStr(x) THEN "raise"
        ELSE IF ~ PhoneMatch(x.v) THEN "err"
        ELSE "ok"

\* the try block: every exception (ValueError of the parse, TypeError of a
\* non-string argument) ends in the format message
BirthdateCheck(data, now) ==
    LET x == GetOrEmpty(data, "birthdate")
    IN  IF ~ IsStr(x) THEN "format"
        ELSE
          LET birth == ParseDate(x.v)
          IN  IF birth = NoDate THEN "format"
              ELSE IF DateAfter(birth, now)
                      \/ ~ (AgeMin <= Age(birth, now) /\ Age(birth, now) <= AgeMax)
                   THEN "range"
                   ELSE "ok"

\* email = data.get("email", ""); re.match(..., email) is not guarded:
\* None or a number raises TypeError
EmailCheck(data) ==
    LET x == GetOrEmpty(data, "email")
    IN  IF ~ IsStr(x) THEN "raise"
        ELSE IF ~ EmailMatch(x.v) THEN "err"
        ELSE "ok"

Returned(errs) == [raised |-> FALSE, errors |-> errs]
Raised == [raised |-> TRUE, errors |-> <<>>]

validate_student(data, now) ==
    LET c1 == NameCheck(data, "first_name")
        c2 == NameCheck(data, "last_name")
        c3 == PhoneCheck(data)
        c4 == BirthdateCheck(data, now)
        c5 == EmailCheck(data)
    IN  IF "raise" \in {c1, c2, c3, c5} THEN Raised
        ELSE Returned(
               (IF c1 = "err" THEN <<MsgFirstName>> ELSE <<>>)
            \o (IF c2 = "err" THEN <<MsgLastName>> ELSE <<>>)
            \o (IF c3 = "err" THEN <<MsgPhone>> ELSE <<>>)
            \o (IF c4 = "range" THEN <<MsgAge>>
                ELSE IF c4 = "format" THEN <<MsgDateFormat>> ELSE <<>>)
            \o (IF c5 = "err" THEN <<MsgEmail>> ELSE <<>>))

----------------------------------------------------------------------------
(* Sample inputs *)

Ann == <<"A", "n", "n">>
Lee == <<"L", "e", "e">>
Phone9 == <<"9", "1", "2", "3", "4", "5", "6", "7", "8", "9">>
Phone8 == <<"8", "1", "2", "3", "4", "5", "6", "7", "8", "9">>
Phone7 == <<"7", "1", "2", "3", "4", "5", "6", "7", "8", "9">>
Born2000 == <<"2", "0", "0", "0", "-", "0", "1", "-", "0", "1">>
AnnMail == <<"a", "@", "x", ".", "c">>
LeeMail == <<"l", "@", "x", ".", "c">>
MaxMail == <<"m", "@", "x", ".", "c">>

Todays == {<<2026, 11, 1>>, <<2024, 2, 29>>}

FirstNames ==
    { Missing, Null, Num(<<"0">>), Num(<<"1", "2", "3">>),
      Str(<<>>), Str(<<"A">>), Str(Ann), Str(<<"A", "1">>),
      Str(<<"A", "-", " ", "n">>),
      Str(Rep("a", NameMax)), Str(Rep("a", NameMax + 1)),
      Str(Rep("a", NameMax) \o <<"\n">>) }

LastNames == { Missing, Num(<<"7">>), Str(<<"L">>), Str(Lee) }

Phones ==
    { Missing, Null, Num(Phone9), Str(<<>>), Str(Phone9),
      Str(<<"4">> \o Tail(Phone9)),
      Str(SubSeq(Phone9, 1, PhoneLen - 1)),
      Str(Phone9 \o <<"0">>),
      Str(Phone9 \o <<"\n">>),
      Str(SubSeq(Phone9, 1, PhoneLen - 1) \o <<"U+0663">>) }

Birthdates ==
    { Missing, Null, Num(<<"2", "0", "0", "0">>), Str(<<>>), Str(Born2000),
      Str(<<"2", "9", "9", "9", "-", "0", "1", "-", "0", "1">>),
      Str(<<"2", "0", "0", "0", "-", "1", "-", "1">>),
      Str(<<"2", "0", "0", "1", "-", "0", "2", "-", "2", "9">>),
      Str(<<"2", "0", "0", "0", "-", "1", "3", "-", "0", "1">>),
      Str(<<"0", "1", "/", "0", "1", "/", "2", "0", "0", "0">>),
      Str(Born2000 \o <<"\n">>),
      Str(<<"2", "0", "2", "1", "-", "1", "1", "-", "0", "1">>),
      Str(<<"2", "0", "2", "1", "-", "1", "1", "-", "0", "2">>),
      Str(<<"2", "0", "1", "9", "-", "0", "3", "-", "0", "1">>),
      Str(<<"1", "9", "2", "5", "-", "1", "1", "-", "0", "2">>),
      Str(<<"1", "9", "2", "5", "-", "1", "1", "-", "0", "1">>),
      Str(<<"1", "9", "2", "3", "-", "0", "2", "-", "2", "8">>) }

Emails ==
    { Missing, Null, Num(<<"5">>), Str(<<>>), Str(AnnMail),
      Str(<<"a", "x", ".", "c">>),
      Str(<<"a", "@", "x">>),
      Str(<<"a", "@", "@", "x", ".", "c">>),
      Str(<<"@", "x", ".", "c">>),
      Str(AnnMail \o <<"\n">>) }

Candidates ==
    [first_name : FirstNames, last_name : LastNames, phone : Phones,
     birthdate : Birthdates, email : Emails]

ValidData(fn, ph, em) ==
    [first_name |-> Str(fn), last_name |-> Str(Lee), phone |-> Str(ph),
     birthdate |-> Str(Born2000), email |-> Str(em)]

----------------------------------------------------------------------------
(* Direct calls of validate_student *)

NoRequest == [op |-> "none", id |-> 0, data |-> ValidData(Ann, Phone9, AnnMail)]
NoResponse == [status |-> 0, success |-> FALSE, body |-> <<>>]

InitV ==
    /\ tableExists = TRUE
    /\ students = {}
    /\ today \in Todays
    /\ request = NoRequest
    /\ response = NoResponse
    /\ before = [exists |-> TRUE, rows |-> {}, locked |-> FALSE]
    /\ reseq = "none"
    /\ everFailed = FALSE
    /\ locked = FALSE
    /\ candidate \in Candidates
    /\ result = <<>>

CallValidate ==
    /\ result = <<>>
    /\ result' = <<validate_student(candidate, today)>>
    /\ UNCHANGED <<dbvars, today, candidate>>

NextV == CallValidate

SpecV == InitV /\ [][NextV]_vars

----------------------------------------------------------------------------
(* The table `students` *)

Row(id, data) ==
    [id |-> id, first_name |-> data.first_name.v, last_name |-> data.last_name.v,
     number |-> data.phone.v, birthdate |-> data.birthdate.v, email |-> data.email.v]

Ids(rows) == {r.id : r \in rows}

MaxOf(S) == CHOOSE x \in S : \A y \in S : y <= x

\* variant: ids start at 0
NextRowid_zeroBased(rows) == IF rows = {} THEN 0 ELSE MaxOf(Ids(rows)) + 1

\* id INTEGER PRIMARY KEY without AUTOINCREMENT: an INSERT that names no id
\* gets the largest id in use plus one, 1 in an empty table
NextRowid(rows) == IF rows = {} THEN 1 ELSE MaxOf(Ids(rows)) + 1

\* variant: the phone check of add_student finds nothing
PhoneTaken_skipped(rows, phone) == FALSE

\* SELECT id FROM students WHERE number = ?
PhoneTaken(rows, phone) == \E r \in rows : r.number = phone

\* variant: the phone check of edit_student finds nothing
PhoneTakenByOther_skipped(rows, phone, student_id) == FALSE

\* SELECT id FROM students WHERE number = ? AND id != ?
PhoneTakenByOther(rows, phone, student_id) ==
    \E r \in rows : r.number = phone /\ r.id # student_id

\* email TEXT UNIQUE: the statement would leave two rows with this email
EmailTaken(rows, email, student_id) ==
    \E r \in rows : r.email = email /\ r.id # student_id

\* variant: rowcount is not looked at, every statement counts as one row
RowCount_ignored(rows, student_id) == 1

\* cursor.rowcount of UPDATE/DELETE ... WHERE id = ?
RowCount(rows, student_id) == Cardinality({r \in rows : r.id = student_id})

\* str.upper() on the column names of the table
Upper(name) ==
    CASE name = "email" -> "EMAIL"
      [] name = "id" -> "ID"
      [] OTHER -> name

\* sqlite3.IntegrityError raised for the email column
UniqueEmailError == [constraint |-> "UNIQUE", column |-> "email"]

MsgInvalidJSON == "Invalid JSON"
MsgPhoneConflict == "A student with this phone number already exists."
MsgEmailConflict == "A student with this email already exists."
MsgIntegrity == "Database integrity error"
MsgNotFound == "Student not found"
MsgRegistered == "Student registered successfully!"
MsgUpdated == "Student updated successfully!"
MsgDeleted == "Student deleted"

\* variant: the text of the exception is matched in its original case
\* against "EMAIL" only
IntegrityMessage_caseSensitive(exc) ==
    IF exc.constraint = "unique" \/ exc.column = "EMAIL"
    THEN MsgEmailConflict
    ELSE MsgIntegrity

\* the except branch: "UNIQUE" in err_text or "EMAIL" in err_text, where
\* err_text is "<constraint> constraint failed: students.<column>" upper-cased
IntegrityMessage(exc) ==
    IF exc.constraint = "UNIQUE" \/ Upper(exc.column) = "EMAIL"
    THEN MsgEmailConflict
    ELSE MsgIntegrity

Failure(status, errs) == [status |-> status, success |-> FALSE, body |-> errs]
Success(msg) == [status |-> 200, success |-> TRUE, body |-> <<msg>>]

\* an exception no handler catches: Flask answers 500
ServerError == [status |-> 500, success |-> FALSE, body |-> <<>>]

\* if not data / validate_student(data) at the head of add_student and
\* edit_student: the answer that ends the request there, or NoResponse
Rejected(data, now) ==
    IF IsEmptyJSON(data) THEN Failure(400, <<MsgInvalidJSON>>)
    ELSE LET v == validate_student(data, now)
         IN  IF v.raised THEN ServerError
             ELSE IF v.errors # <<>> THEN Failure(400, v.errors)
             ELSE NoResponse

----------------------------------------------------------------------------
(* resequence_students *)

RECURSIVE OrderById(_)
\* SELECT ... FROM students ORDER BY id
OrderById(rows) ==
    IF rows = {} THEN <<>>
    ELSE LET first == CHOOSE r \in rows : \A q \in rows : r.id <= q.id
         IN  <<first>> \o OrderById(rows \ {first})

\* variant: the rows are re-inserted with the ids they had
Resequenced_sameIds(rows) == rows

\* the table a pass that runs to its commit leaves
Resequenced(rows) ==
    LET ordered == OrderById(rows)
    IN  {[ordered[idx] EXCEPT !.id = idx] : idx \in 1..Len(ordered)}

\* where a pass stops: "none" runs to the end; "select" fails before the
\* DROP took effect; "create" fails after the DROP, which sqlite3 runs
\* outside any transaction; "insert" fails in an INSERT or in the commit
Faults(rows) == {"none", "select", "create"} \cup (IF rows = {} THEN {} ELSE {"insert"})

\* [exists, rows, locked] after a pass over `rows` that stops at `fault`
AfterPass(rows, fault) ==
    CASE fault = "none" -> [exists |-> TRUE, rows |-> Resequenced(rows), locked |-> FALSE]
      [] fault = "select" -> [exists |-> TRUE, rows |-> rows, locked |-> FALSE]
      [] fault = "create" -> [exists |-> FALSE, rows |-> {}, locked |-> FALSE]
      [] fault = "insert" -> [exists |-> TRUE, rows |-> {}, locked |-> TRUE]

\* variant: the exception of the pass is not caught
AfterDelete_uncaught(fault) == IF fault = "none" THEN Success(MsgDeleted) ELSE ServerError

\* try: resequence_students() / except Exception: pass
AfterDelete(fault) == Success(MsgDeleted)

----------------------------------------------------------------------------
(* Requests *)

Today == <<2026, 11, 1>>

\* (phone, email) of the valid candidates: every phone and every email is
\* used by two of them
Contacts ==
    { <<Phone9, AnnMail>>, <<Phone8, LeeMail>>, <<Phone7, MaxMail>>,
      <<Phone9, LeeMail>>, <<Phone8, MaxMail>>, <<Phone7, AnnMail>> }

\* bodies of POST and PUT: valid candidates, one the validator rejects, one
\* on which it raises, and the empty object
Bodies ==
    {ValidData(Ann, c[1], c[2]) : c \in Contacts}
    \cup { [ValidData(Ann, Phone9, AnnMail) EXCEPT !.phone = Str(<<"4">> \o Tail(Phone9))],
           [ValidData(Ann, Phone9, AnnMail) EXCEPT !.email = Null],
           [k \in Fields |-> Missing] }

\* <int:student_id> of the URL
StudentIds == 1..(MaxId + 1)

Init ==
    /\ tableExists = TRUE
    /\ students = {}
    /\ today = Today
    /\ request = NoRequest
    /\ response = NoResponse
    /\ before = [exists |-> TRUE, rows |-> {}, locked |-> FALSE]
    /\ reseq = "none"
    /\ everFailed = FALSE
    /\ locked = FALSE
    /\ candidate = ValidData(Ann, Phone9, AnnMail)
    /\ result = <<>>

\* the request arrives: what the handler was given and the table it found
Arrive(op, student_id, data) ==
    /\ request' = [op |-> op, id |-> student_id, data |-> data]
    /\ before' = [exists |-> tableExists, rows |-> students, locked |-> locked]
    /\ UNCHANGED <<today, candidate, result>>

\* the request ends without touching the table
Answer(r) ==
    /\ response' = r
    /\ reseq' = "none"
    /\ UNCHANGED <<tableExists, students, everFailed, locked>>

\* POST /api/students
add_student(data) ==
    /\ Arrive("add", 0, data)
    /\ LET rejected == Rejected(data, today) IN
       IF rejected # NoResponse THEN Answer(rejected)
       ELSE IF ~ tableExists THEN Answer(ServerError)
       ELSE IF PhoneTaken(students, data.phone.v)
            THEN Answer(Failure(400, <<MsgPhoneConflict>>))
       ELSE IF locked THEN Answer(ServerError)
       ELSE IF EmailTaken(students, data.email.v, 0)
            THEN Answer(Failure(400, <<IntegrityMessage(UniqueEmailError)>>))
       ELSE /\ Cardinality(students) < MaxRows
            /\ NextRowid(students) <= MaxId
            /\ students' = students \cup {Row(NextRowid(students), data)}
            /\ response' = Success(MsgRegistered)
            /\ reseq' = "none"
            /\ UNCHANGED <<tableExists, everFailed, locked>>

\* PUT /api/students/<student_id>
edit_student(student_id, data) ==
    /\ Arrive("edit", student_id, data)
    /\ LET rejected == Rejected(data, today) IN
       IF rejected # NoResponse THEN Answer(rejected)
       ELSE IF ~ tableExists THEN Answer(ServerError)
       ELSE IF PhoneTakenByOther(students, data.phone.v, student_id)
            THEN Answer(Failure(400, <<MsgPhoneConflict>>))
       ELSE IF locked THEN Answer(ServerError)
       ELSE IF RowCount(students, student_id) = 0
            THEN Answer(Failure(404, <<MsgNotFound>>))
       ELSE IF EmailTaken(students, data.email.v, student_id)
            THEN Answer(Failure(400, <<IntegrityMessage(UniqueEmailError)>>))
       ELSE /\ students' = {r \in students : r.id # student_id}
                           \cup {Row(student_id, data)}
            /\ response' = Success(MsgUpdated)
            /\ reseq' = "none"
            /\ UNCHANGED <<tableExists, everFailed, locked>>

\* DELETE /api/students/<student_id>, with the resequencing pass it calls
delete_student(student_id, fault) ==
    /\ Arrive("delete", student_id, ValidData(Ann, Phone9, AnnMail))
    /\ IF ~ tableExists \/ locked
       THEN fault = "none" /\ Answer(ServerError)
       ELSE IF RowCount(students, student_id) = 0
       THEN fault = "none" /\ Answer(Failure(404, <<MsgNotFound>>))
       ELSE LET remaining == {r \in students : r.id # student_id}
                after == AfterPass(remaining, fault)
            IN  /\ fault \in Faults(remaining)
                /\ tableExists' = after.exists
                /\ students' = after.rows
                /\ locked' = after.locked
                /\ reseq' = IF fault = "none" THEN "ok" ELSE "failed"
                /\ everFailed' = (everFailed \/ fault # "none")
                /\ response' = AfterDelete(fault)

\* the garbage collector closes the connection a failed pass left open:
\* its transaction is rolled back and the write lock released
CollectConnection ==
    /\ locked
    /\ locked' = FALSE
    /\ UNCHANGED <<tableExists, students, today, request, response, before,
                   reseq, everFailed, candidate, result>>

Next ==
    \/ \E data \in Bodies : add_student(data)
    \/ \E student_id \in StudentIds, data \in Bodies : edit_student(student_id, data)
    \/ \E student_id \in StudentIds, fault \in {"none", "select", "create", "insert"} :
           delete_student(student_id, fault)
    \/ CollectConnection

Spec == Init /\ [][Next]_vars

----------------------------------------------------------------------------
(* Properties of the handlers *)

\* the request in `request` carried a candidate the validator accepts
ValidRequest(op) ==
    /\ request.op = op
    /\ Rejected(request.data, today) = NoResponse

TableUnchanged ==
    /\ tableExists = before.exists
    /\ students = before.rows

SameFields(r, q) ==
    /\ r.first_name = q.first_name
    /\ r.last_name = q.last_name
    /\ r.number = q.number
    /\ r.birthdate = q.birthdate
    /\ r.email = q.email

\* the rows the delete in `request` left for its resequencing pass
Remaining == {r \in before.rows : r.id # request.id}

\* C1: no two rows of the table have the same phone number
C1_UniquePhone ==
    \A r \in students, q \in students : (r # q) => (r.number # q.number)

\* an update that succeeded in a table of several rows
C1_Witness ==
    /\ Cardinality(students) >= 2
    /\ request.op = "edit"
    /\ response.success

\* C2: a create with a valid candidate whose phone is the phone of an
\* existing row gets the phone-conflict error with status 400 and leaves the
\* table as it was, whatever the email of the candidate
C2_PhoneConflict ==
    (/\ ValidRequest("add")
     /\ \E r \in before.rows : r.number = request.data.phone.v)
    => (/\ response = Failure(400, <<MsgPhoneConflict>>)
        /\ TableUnchanged)

\* such a create whose email no row uses
C2_Witness ==
    /\ ValidRequest("add")
    /\ \E r \in before.rows : r.number = request.data.phone.v
    /\ \A r \in before.rows : r.email # request.data.email.v
    /\ response.status = 400

\* C3: a create with a valid candidate whose email is the email of an
\* existing row and whose phone no row uses gets the email-conflict error
\* and leaves the table as it was; no two rows share an email
C3_EmailConflict ==
    /\ (/\ ValidRequest("add")
        /\ \E r \in before.rows : r.email = request.data.email.v
        /\ \A r \in before.rows : r.number # request.data.phone.v)
       => (/\ response = Failure(400, <<MsgEmailConflict>>)
           /\ TableUnchanged)
    /\ \A r \in students, q \in students : (r # q) => (r.email # q.email)

\* such a create, answered in a table of two rows
C3_Witness ==
    /\ ValidRequest("add")
    /\ \E r \in before.rows : r.email = request.data.email.v
    /\ \A r \in before.rows : r.number # request.data.phone.v
    /\ Cardinality(students) = 2
    /\ response.status = 400

\* C4: after a delete of an existing id whose resequencing pass ran to its
\* end, a table of N rows holds N-1 rows with the ids 1..N-1, in the order
\* their ids had before, each with its five fields unchanged
C4_Compaction ==
    (request.op = "delete" /\ response.success /\ reseq = "ok")
    => (/\ Cardinality(students) = Cardinality(before.rows) - 1
        /\ Ids(students) = 1..(Cardinality(before.rows) - 1)
        /\ \A r \in Remaining : \E q \in students : SameFields(r, q)
        /\ \A r1 \in Remaining, r2 \in Remaining, q1 \in students, q2 \in students :
              (SameFields(r1, q1) /\ SameFields(r2, q2) /\ r1.id < r2.id)
              => q1.id < q2.id)

\* a delete of a row that is neither the first nor the last of three
C4_Witness ==
    /\ request.op = "delete" /\ response.success /\ reseq = "ok"
    /\ Cardinality(before.rows) = 3
    /\ \E r \in before.rows : r.id < request.id
    /\ \E r \in before.rows : r.id > request.id

\* C5 as stated: an update with a valid payload whose id matches no row
\* gets NotFound (404) and leaves the table as it was, also when the phone
\* or the email of the payload is used by an existing row
C5_NotFoundAlways ==
    (ValidRequest("edit") /\ request.id \notin Ids(before.rows))
    => (/\ response = Failure(404, <<MsgNotFound>>)
        /\ TableUnchanged)

\* C5 amended: such an update leaves the table as it was; it gets NotFound
\* (404) when no row uses the phone of the payload, whether or not a row
\* uses its email, and the phone-conflict error (400) when a row uses the
\* phone; on a table an earlier failed pass left dropped or locked it ends
\* in an unhandled storage error (500)
C5_NotFound ==
    (ValidRequest("edit") /\ request.id \notin Ids(before.rows))
    => (/\ TableUnchanged
        /\ response =
             IF ~ before.exists \/ before.locked THEN ServerError
             ELSE IF \E r \in before.rows : r.number = request.data.phone.v
                  THEN Failure(400, <<MsgPhoneConflict>>)
                  ELSE Failure(404, <<MsgNotFound>>))

\* an update of a missing id whose email a row uses and whose phone none does
C5_Witness ==
    /\ ValidRequest("edit") /\ request.id \notin Ids(before.rows)
    /\ \E r \in before.rows : r.email = request.data.email.v
    /\ \A r \in before.rows : r.number # request.data.phone.v
    /\ response.status = 404

\* C6: a resequencing pass that fails leaves every row the table held when
\* the pass started (its drop, recreate and re-inserts take effect together
\* or not at all)
C6_AtomicPass ==
    (request.op = "delete" /\ reseq = "failed") => (students = Remaining)

\* C7: when the pass after a delete fails, the deleted row stays absent and
\* the request still answers 200 "Student deleted"
C7_DeleteSurvives ==
    (request.op = "delete" /\ reseq = "failed")
    => (/\ response = Success(MsgDeleted)
        /\ \A d \in before.rows : (d.id = request.id) =>
              (d \notin students /\ \A r \in students : ~ SameFields(r, d)))

\* a failed pass after the delete of one of several rows
C7_Witness ==
    /\ request.op = "delete" /\ reseq = "failed"
    /\ Cardinality(before.rows) >= 2
    /\ response.status = 200

\* C10: as long as no pass has failed, the ids of the table are 1..N; a
\* create that succeeds adds id N+1, an update keeps the ids
C10_DenseIds ==
    (~ everFailed)
    => (/\ Ids(students) = 1..Cardinality(students)
        /\ (request.op = "add" /\ response.success)
           => (/\ Ids(students) \ Ids(before.rows) = {Cardinality(before.rows) + 1}
               /\ before.rows \subseteq students)
        /\ (request.op = "edit" /\ response.success)
           => Ids(students) = Ids(before.rows))

\* a create that succeeded after an earlier row was deleted and the rest
\* renumbered: the row with the third contact has id 2
C10_Witness ==
    /\ ~ everFailed
    /\ request.op = "add" /\ response.success
    /\ Cardinality(students) = 3
    /\ \E r \in students : r.id = 2 /\ r.number = Phone7

----------------------------------------------------------------------------
(* Properties of validate_student *)

\* the rules as the messages state them
NameOk(x) ==
    /\ IsStr(x)
    /\ Len(x.v) >= NameMin /\ Len(x.v) <= NameMax
    /\ \A i \in 1..Len(x.v) : x.v[i] \in NameChar

PhoneOk(x) ==
    /\ IsStr(x)
    /\ Len(x.v) = PhoneLen
    /\ x.v[1] \in PhoneLead
    /\ \A i \in 1..Len(x.v) : x.v[i] \in Digit

\* the fifth birthday is not after `now`, the 101st is
AgeInRange(birth, now) ==
    /\ ~ DateAfter(<<birth[1] + AgeMin, birth[2], birth[3]>>, now)
    /\ DateAfter(<<birth[1] + AgeMax + 1, birth[2], birth[3]>>, now)

BirthdateParses(x) == IsStr(x) /\ ParseDate(x.v) # NoDate

\* one "@", not in front, and a "." after it that is neither next to the
\* "@" nor the last character
EmailOk(x) ==
    /\ IsStr(x)
    /\ Cardinality({i \in 1..Len(x.v) : x.v[i] = "@"}) = 1
    /\ \E i \in 2..Len(x.v), j \in 1..Len(x.v) :
          x.v[i] = "@" /\ x.v[j] = "." /\ i + 1 < j /\ j < Len(x.v)

\* the messages of the rules `data` violates
Expected(data, now) ==
    (IF NameOk(data.first_name) THEN {} ELSE {MsgFirstName})
    \cup (IF NameOk(data.last_name) THEN {} ELSE {MsgLastName})
    \cup (IF PhoneOk(data.phone) THEN {} ELSE {MsgPhone})
    \cup (IF ~ BirthdateParses(data.birthdate) THEN {MsgDateFormat}
          ELSE IF ~ AgeInRange(ParseDate(data.birthdate.v), now) THEN {MsgAge}
          ELSE {})
    \cup (IF EmailOk(data.email) THEN {} ELSE {MsgEmail})

\* C8: validate_student never raises: for every candidate it returns a list
C8_NeverRaises ==
    (result # <<>>) => ~ result[1].raised

\* C9: validate_student returns the message of every rule the candidate
\* violates and as many messages as rules are violated
C9_AllViolations ==
    (result # <<>>)
    => (/\ ~ result[1].raised
        /\ {result[1].errors[i] : i \in 1..Len(result[1].errors)} = Expected(candidate, today)
        /\ Len(result[1].errors) = Cardinality(Expected(candidate, today)))

====
